---- MODULE Spec2Model ----
(***************************************************************************)
(* bbctl: a command line client of the Bitbucket REST API.                 *)
(*                                                                         *)
(* The model follows one invocation of the top-level CLI (bbctl/main.py)   *)
(* from its configuration check, through the command's optional probe GET, *)
(* to its single mutating call and the way the process ends.  The remote   *)
(* service is the environment: it keeps the grants, projects and           *)
(* repositories and answers every call with a status the model draws from  *)
(* small sets.  Invocations repeat; `last` remembers what the invocation   *)
(* before the current one wrote.                                           *)
(***************************************************************************)
EXTENDS Integers, Sequences, FiniteSets, TLC

VARIABLES
    env,        \* the environment variables that are set in the shell
    args,       \* per process: the command and its options
    pc,         \* per process: where the invocation stands
    probe,      \* per process: the response of the probe GET
    held,       \* per process: what the service held when it was probed
    existing,   \* per process: what the probe function returned to its caller
    resp,       \* per process: the response of the mutating call
    calls,      \* per process: the HTTP calls issued, in order
    out,        \* per process: the outcome messages logged and echoed, in order
    exit,       \* per process: how the process ended
    last,       \* the grant the previous invocation wrote, if it wrote one
    grants,     \* remote: user -> permission level on the repository
    projects,   \* remote: the project keys that exist
    repos       \* remote: the repository slugs that exist

vars == <<env, args, pc, probe, held, existing, resp, calls, out, exit, last,
          grants, projects, repos>>

remoteVars == <<grants, projects, repos>>

---------------------------------------------------------------------------
(* Inputs *)

Procs == {1, 2}

EnvVars == {"BITBUCKET_API_URL", "BITBUCKET_WORKSPACE", "BITBUCKET_USERNAME",
            "BITBUCKET_APP_PASSWORD", "BITBUCKET_TOKEN"}

\* any of them may be unset
Environments == SUBSET EnvVars

Workspace == "acme"
Users == {"alice", "bob"}
Levels == {"read", "write", "admin"}
Slugs == {"svc"}
Keys == {"PRJ"}

Commands == {"exempt", "create-project", "create-repo", "add-user", "remove-user"}
UserCommands == {"add-user", "remove-user"}
CreateCommands == {"create-project", "create-repo"}
\* command words of the users group that users.py registers no command for
GroupCommands == {"add-to-group", "remove-from-group"}

\* the statuses the service answers a mutating call with
MutStatuses == {200, 201, 204, 304, 400, 500}
\* what the body of a response holds: a JSON object with error.message, a
\* JSON object without it, or text that is not JSON
Bodies == {"msg", "nomsg", "notjson"}

NoGrant == "none"

NoResponse == [transport |-> FALSE, status |-> 0, body |-> "unset"]
TransportError == [transport |-> TRUE, status |-> 0, body |-> "unset"]
Response(s, b) == [transport |-> FALSE, status |-> s, body |-> b]

NoArgs == [cmd |-> "none", user |-> "none", level |-> "none",
           slug |-> "none", key |-> "none"]

\* the options each command takes; the others stay "none"
ArgsOf(c) ==
    CASE c = "exempt" ->
           {[cmd |-> c, user |-> u, level |-> "none", slug |-> s, key |-> "none"] :
                u \in Users, s \in Slugs}
      [] c = "add-user" ->
           {[cmd |-> c, user |-> u, level |-> l, slug |-> s, key |-> "none"] :
                u \in Users, l \in Levels, s \in Slugs}
      [] c = "remove-user" ->
           {[cmd |-> c, user |-> u, level |-> "none", slug |-> s, key |-> "none"] :
                u \in Users, s \in Slugs}
      [] c \in GroupCommands ->
           {[cmd |-> c, user |-> u, level |-> "none", slug |-> "none", key |-> "none"] :
                u \in Users}
      [] c = "create-project" ->
           {[cmd |-> c, user |-> "none", level |-> "none", slug |-> "none", key |-> k] :
                k \in Keys}
      [] c = "create-repo" ->
           {[cmd |-> c, user |-> "none", level |-> "none", slug |-> s, key |-> k] :
                s \in Slugs, k \in Keys}

---------------------------------------------------------------------------
(* The wire contract: paths, bodies and the calls the client records *)

PermissionPath(ws, slug, user) ==
    <<"repositories", ws, slug, "permissions-config", "users", user>>
BranchRestrictionsPath(ws, slug) == <<"repositories", ws, slug, "branch-restrictions">>
ProjectsPath(ws) == <<"workspaces", ws, "projects">>
ProjectPath(ws, key) == <<"workspaces", ws, "projects", key>>
RepositoryPath(ws, slug) == <<"repositories", ws, slug>>

NoBody == [none |-> TRUE]
PermissionBody_read(permission) == [permission |-> "read"]
PermissionBody(permission) == [permission |-> permission]
BranchRestrictionBody_main(username) ==
    [kind |-> "push", branch_match_kind |-> "glob", pattern |-> "main",
     users |-> <<[type |-> "user", username |-> username]>>]
BranchRestrictionBody(username) ==
    [kind |-> "push", branch_match_kind |-> "glob", pattern |-> "master",
     users |-> <<[type |-> "user", username |-> username]>>]
ProjectBody(key) == [key |-> key, name |-> "name", description |-> "description"]
RepositoryBody(key) == [scm |-> "git", is_private |-> TRUE, project |-> [key |-> key]]

Call(method, path, auth, body) ==
    [method |-> method, path |-> path, auth |-> auth, body |-> body]

\* ctx.obj["auth"] as the top-level group sets it
CtxAuth(p) ==
    IF {"BITBUCKET_USERNAME", "BITBUCKET_APP_PASSWORD"} \subseteq env
    THEN "basic" ELSE "none"

---------------------------------------------------------------------------
(* The remote service *)

\* a probe GET: the service answers 200 with the resource when it holds it
\* and 404 when it does not, or refuses (403), fails (500), or cannot be
\* reached
ProbeResponses(present, body) ==
    {IF present THEN Response(200, body) ELSE Response(404, "nomsg"),
     Response(403, "msg"), Response(500, "msg"), TransportError}

\* a mutating call on a permission or a branch restriction
MutResponses ==
    {Response(s, IF s >= 400 THEN "msg" ELSE "nomsg") : s \in MutStatuses}
        \cup {TransportError}

\* a creation POST; the service rejects a key or slug it already holds
CreateResponses(present) ==
    LET all == {Response(s, "nomsg") : s \in {200, 201}}
                 \cup {Response(s, b) : s \in MutStatuses \ {200, 201}, b \in Bodies}
                 \cup {TransportError}
    IN  IF present THEN {r \in all : r.transport \/ r.status >= 400} ELSE all

\* the service carries a request out exactly when it answers 2xx
Applied(r) == ~r.transport /\ r.status >= 200 /\ r.status < 300

---------------------------------------------------------------------------
(* The client's decisions *)

raise_for_status_5xx(status) == status >= 500 /\ status < 600

\* response.raise_for_status()
raise_for_status(status) == status >= 400 /\ status < 600

RequestException_http_only(r) == ~r.transport /\ raise_for_status(r.status)

\* the except requests.exceptions.RequestException branch is taken
RequestException(r) == r.transport \/ raise_for_status(r.status)

\* what check_user_repo_permission returns: the grant, or {} as NoGrant
PermissionData(r) ==
    IF r.transport THEN NoGrant
    ELSE IF r.status = 200 THEN r.body
    ELSE IF r.status = 404 THEN NoGrant
    ELSE NoGrant

ProjectExistsResult_403_exists(r) == ~r.transport /\ r.status \in {200, 403}

\* what project_exists returns
ProjectExistsResult(r) ==
    IF r.transport THEN FALSE
    ELSE IF r.status = 200 THEN TRUE
    ELSE IF r.status = 404 THEN FALSE
    ELSE FALSE

RepositoryExistsResult_403_exists(r) == ~r.transport /\ r.status \in {200, 403}

\* what repository_exists returns
RepositoryExistsResult(r) ==
    IF r.transport THEN FALSE
    ELSE IF r.status = 200 THEN TRUE
    ELSE IF r.status = 404 THEN FALSE
    ELSE IF r.status = 403 THEN FALSE
    ELSE FALSE

HasPermission_always(existing_permission) == TRUE

\* if existing_permission:
HasPermission(existing_permission) == existing_permission # NoGrant

SamePermission_never(current_permission, permission) == FALSE

SamePermission_always(current_permission, permission) == TRUE

\* current_permission == permission
SamePermission(current_permission, permission) == current_permission = permission

ProjectGuard_never(exists) == FALSE

\* if project_exists(...): the guard of create_project_command
ProjectGuard(exists) == exists

\* if repository_exists(...): the guard of create
RepositoryGuard(exists) == exists

ProjectCreated_any_2xx(status) == status >= 200 /\ status < 300

\* response.status_code in (200, 201), create_project
ProjectCreated(status) == status \in {200, 201}

\* response.status_code in (200, 201), create_repository
RepositoryCreated(status) == status \in {200, 201}

ExitCode_message_zero(how) == IF how = "return" \/ how = "SystemExit(message)" THEN 0 ELSE 1

\* the exit status of a process that ended this way
ExitCode(how) ==
    CASE how = "return" -> 0
      [] how = "ctx.exit(1)" -> 1
      [] how = "SystemExit(1)" -> 1
      [] how = "SystemExit(message)" -> 1
      [] how = "exception" -> 1
      [] how = "UsageError" -> 2
      [] OTHER -> -1

---------------------------------------------------------------------------
(* Output *)

\* a message: its channel, its marker (ok, noop, fail, info), what it carries
Log(kind, text) == <<"log", kind, text>>
Echo(kind, text) == <<"echo", kind, text>>

Finish(p, msgs, how) ==
    /\ out' = [out EXCEPT ![p] = @ \o msgs]
    /\ exit' = [exit EXCEPT ![p] = how]
    /\ pc' = [pc EXCEPT ![p] = "done"]

IssueProbe_put(p, c, r, was, result) ==
    /\ calls' = [calls EXCEPT ![p] = Append(@, [c EXCEPT !.method = "PUT"])]
    /\ probe' = [probe EXCEPT ![p] = r]
    /\ held' = [held EXCEPT ![p] = was]
    /\ existing' = [existing EXCEPT ![p] = result]

\* the requests.get of a check and the value the check returns
IssueProbe(p, c, r, was, result) ==
    /\ calls' = [calls EXCEPT ![p] = Append(@, c)]
    /\ probe' = [probe EXCEPT ![p] = r]
    /\ held' = [held EXCEPT ![p] = was]
    /\ existing' = [existing EXCEPT ![p] = result]

ProbeEscapes_transport(r) == r.transport

\* an error of the GET that the check's except clause lets through: none,
\* requests.get raises RequestException only and the clause catches it
ProbeEscapes(r) == FALSE

\* a check as its caller sees it: the value comes back, or the error
\* propagates and ends the process
Probe(p, c, r, was, result) ==
    IF ProbeEscapes(r)
    THEN /\ calls' = [calls EXCEPT ![p] = Append(@, c)]
         /\ probe' = [probe EXCEPT ![p] = r]
         /\ held' = [held EXCEPT ![p] = was]
         /\ UNCHANGED existing
         /\ Finish(p, <<>>, "exception")
    ELSE /\ IssueProbe(p, c, r, was, result)
         /\ pc' = [pc EXCEPT ![p] = "checked"]
         /\ UNCHANGED <<out, exit>>

IssueMutation_retry(p, c, r) ==
    /\ calls' = [calls EXCEPT ![p] =
                    IF r.transport \/ r.status >= 400
                    THEN Append(Append(@, c), c) ELSE Append(@, c)]
    /\ resp' = [resp EXCEPT ![p] = r]

IssueMutation_recheck(p, c, r) ==
    /\ calls' = [calls EXCEPT ![p] = Append(Append(@, c), [c EXCEPT !.method = "GET"])]
    /\ resp' = [resp EXCEPT ![p] = r]

IssueMutation_twice(p, c, r) ==
    /\ calls' = [calls EXCEPT ![p] = Append(Append(@, c), c)]
    /\ resp' = [resp EXCEPT ![p] = r]

IssueMutation(p, c, r) ==
    /\ calls' = [calls EXCEPT ![p] = Append(@, c)]
    /\ resp' = [resp EXCEPT ![p] = r]

---------------------------------------------------------------------------
(* bbctl/main.py *)

\* the cli group callback: the configuration check every command passes
cli(p) ==
    /\ pc[p] = "cli"
    /\ LET missing_vars == {"BITBUCKET_API_URL", "BITBUCKET_WORKSPACE"} \ env IN
       IF missing_vars # {}
       THEN Finish(p, <<Log("fail", "config"), Echo("fail", "config")>>, "ctx.exit(1)")
       ELSE /\ pc' = [pc EXCEPT ![p] = "cmd"]
            /\ UNCHANGED <<out, exit>>
    /\ UNCHANGED <<env, args, probe, held, existing, resp, calls, last, remoteVars>>

---------------------------------------------------------------------------
(* bbctl/users.py *)

\* the users group resolving a command word it has no command for: click
\* reports the usage error and the process ends before any command body runs
users_cli(p) ==
    /\ pc[p] = "cmd"
    /\ args[p].cmd \notin UserCommands
    /\ args[p].cmd \in GroupCommands
    /\ Finish(p, <<<<"stderr", "fail", "usage">>>>, "UsageError")
    /\ UNCHANGED <<env, args, probe, held, existing, resp, calls, last, remoteVars>>

\* the GET of add-user and remove-user
check_user_repo_permission(p) ==
    /\ pc[p] = "cmd"
    /\ args[p].cmd \in UserCommands
    /\ LET a == args[p]
           grant == grants[a.slug, a.user]
       IN  \E r \in ProbeResponses(grant # NoGrant, grant) :
               Probe(p, Call("GET", PermissionPath(Workspace, a.slug, a.user),
                             CtxAuth(p), NoBody),
                     r, grants[a.slug, a.user], PermissionData(r))
    /\ UNCHANGED <<env, args, resp, last, remoteVars>>

add_user_to_repo(p) ==
    /\ pc[p] = "checked"
    /\ args[p].cmd = "add-user"
    /\ LET a == args[p]
           notice == IF HasPermission(existing[p])
                     THEN <<Log("info", "updating")>> ELSE <<>>
       IN  IF HasPermission(existing[p]) /\ SamePermission(existing[p], a.level)
           THEN /\ Finish(p, <<Log("noop", "same"), Echo("noop", "same")>>, "return")
                /\ UNCHANGED <<calls, resp, grants>>
           ELSE \E r \in MutResponses :
                /\ IssueMutation(p, Call("PUT", PermissionPath(Workspace, a.slug, a.user),
                                         CtxAuth(p), PermissionBody(a.level)), r)
                /\ grants' = IF Applied(r)
                             THEN [grants EXCEPT ![a.slug, a.user] = a.level]
                             ELSE grants
                /\ IF RequestException(r)
                   THEN Finish(p, notice \o <<Log("fail", "add")>>
                                   \o (IF r.transport THEN <<>>
                                       ELSE <<Log("info", r.body)>>)
                                   \o <<Echo("fail", "add")>>,
                               "SystemExit(1)")
                   ELSE Finish(p, notice \o <<Log("ok", "add"), Echo("ok", "add")>>,
                               "return")
    /\ UNCHANGED <<env, args, probe, held, existing, last, projects, repos>>

remove_user_from_repo(p) ==
    /\ pc[p] = "checked"
    /\ args[p].cmd = "remove-user"
    /\ LET a == args[p] IN
       IF ~HasPermission(existing[p])
       THEN /\ Finish(p, <<Log("noop", "nothing"), Echo("noop", "nothing")>>, "return")
            /\ UNCHANGED <<calls, resp, grants>>
       ELSE \E r \in MutResponses :
            /\ IssueMutation(p, Call("DELETE", PermissionPath(Workspace, a.slug, a.user),
                                     CtxAuth(p), NoBody), r)
            /\ grants' = IF Applied(r)
                         THEN [grants EXCEPT ![a.slug, a.user] = NoGrant]
                         ELSE grants
            /\ IF RequestException(r)
               THEN Finish(p, <<Log("fail", "remove")>>
                               \o (IF r.transport THEN <<>>
                                   ELSE <<Log("info", r.body)>>)
                               \o <<Echo("fail", "remove")>>,
                           "SystemExit(1)")
               ELSE Finish(p, <<Log("ok", "remove"), Echo("ok", "remove")>>, "return")
    /\ UNCHANGED <<env, args, probe, held, existing, last, projects, repos>>

---------------------------------------------------------------------------
(* bbctl/branches.py *)

\* exempt_user_from_pull_request: no probe, one POST; on success it reports
\* and returns through the command; on failure it logs and echoes the
\* message and raises SystemExit(message) to the command
exempt_user_from_pull_request(p) ==
    /\ pc[p] = "cmd"
    /\ args[p].cmd = "exempt"
    /\ LET a == args[p] IN
       \E r \in MutResponses :
            /\ IssueMutation(p, Call("POST", BranchRestrictionsPath(Workspace, a.slug),
                                     CtxAuth(p), BranchRestrictionBody(a.user)), r)
            /\ IF RequestException(r)
               THEN /\ out' = [out EXCEPT ![p] =
                                  @ \o <<Log("fail", "exempt"), Echo("fail", "exempt")>>]
                    /\ pc' = [pc EXCEPT ![p] = "raised"]
                    /\ UNCHANGED exit
               ELSE Finish(p, <<Log("ok", "exempt"), Echo("ok", "exempt")>>, "return")
    /\ UNCHANGED <<env, args, probe, held, existing, last, remoteVars>>

\* the exempt command catching the SystemExit of its function: it echoes the
\* message again and re-raises, and the interpreter prints the message
exempt(p) ==
    /\ pc[p] = "raised"
    /\ args[p].cmd = "exempt"
    /\ Finish(p, <<Echo("fail", "exempt"), <<"stderr", "fail", "exempt">> >>,
              "SystemExit(message)")
    /\ UNCHANGED <<env, args, probe, held, existing, resp, calls, last, remoteVars>>

---------------------------------------------------------------------------
(* bbctl/projects.py *)

\* create_project_command up to the probe: the command's own check of its
\* environment
create_project_command(p) ==
    /\ pc[p] = "cmd"
    /\ args[p].cmd = "create-project"
    /\ LET missing_vars == {"BITBUCKET_WORKSPACE", "BITBUCKET_TOKEN",
                            "BITBUCKET_API_URL"} \ env IN
       IF missing_vars # {}
       THEN Finish(p, <<Log("fail", "config")>>, "SystemExit(1)")
       ELSE /\ pc' = [pc EXCEPT ![p] = "probe"]
            /\ UNCHANGED <<out, exit>>
    /\ UNCHANGED <<env, args, probe, held, existing, resp, calls, last, remoteVars>>

project_exists(p) ==
    /\ pc[p] = "probe"
    /\ args[p].cmd = "create-project"
    /\ \E r \in ProbeResponses(args[p].key \in projects, "nomsg") :
           Probe(p, Call("GET", ProjectPath(Workspace, args[p].key), "bearer", NoBody),
                 r, args[p].key \in projects, ProjectExistsResult(r))
    /\ UNCHANGED <<env, args, resp, last, remoteVars>>

\* create_project_command after the probe: the guard
create_project_guard(p) ==
    /\ pc[p] = "checked"
    /\ args[p].cmd = "create-project"
    /\ IF ProjectGuard(existing[p])
       THEN Finish(p, <<Log("fail", "exists"), Echo("fail", "exists")>>, "SystemExit(1)")
       ELSE /\ pc' = [pc EXCEPT ![p] = "mutate"]
            /\ UNCHANGED <<out, exit>>
    /\ UNCHANGED <<env, args, probe, held, existing, resp, calls, last, remoteVars>>

create_project(p) ==
    /\ pc[p] = "mutate"
    /\ args[p].cmd = "create-project"
    /\ \E r \in CreateResponses(args[p].key \in projects) :
        /\ IssueMutation(p, Call("POST", ProjectsPath(Workspace), "bearer",
                                 ProjectBody(args[p].key)), r)
        /\ projects' = IF Applied(r) THEN projects \cup {args[p].key} ELSE projects
        /\ IF RequestException(r)
           THEN Finish(p, (IF r.transport THEN <<>> ELSE <<Log("info", r.body)>>)
                           \o <<Log("fail", "create")>>,
                       "SystemExit(1)")
           ELSE IF ProjectCreated(r.status)
           THEN Finish(p, <<Log("ok", "create"), Echo("ok", "create")>>, "return")
           ELSE IF r.body = "notjson"
           THEN Finish(p, <<Log("fail", "create")>>, "exception")
           ELSE Finish(p, <<Log("fail", "create"),
                            Log("fail", IF r.body = "msg" THEN "msg" ELSE "unknown"),
                            Echo("fail", "create")>>,
                       "SystemExit(1)")
    /\ UNCHANGED <<env, args, probe, held, existing, last, grants, repos>>

---------------------------------------------------------------------------
(* bbctl/repositories.py *)

\* create up to the probe: the command's own check of its environment
create(p) ==
    /\ pc[p] = "cmd"
    /\ args[p].cmd = "create-repo"
    /\ IF "BITBUCKET_WORKSPACE" \notin env \/ "BITBUCKET_TOKEN" \notin env
       THEN Finish(p, <<Log("fail", "config")>>, "SystemExit(1)")
       ELSE /\ pc' = [pc EXCEPT ![p] = "probe"]
            /\ UNCHANGED <<out, exit>>
    /\ UNCHANGED <<env, args, probe, held, existing, resp, calls, last, remoteVars>>

repository_exists(p) ==
    /\ pc[p] = "probe"
    /\ args[p].cmd = "create-repo"
    /\ \E r \in ProbeResponses(args[p].slug \in repos, "nomsg") :
           Probe(p, Call("GET", RepositoryPath(Workspace, args[p].slug), "bearer",
                         NoBody),
                 r, args[p].slug \in repos, RepositoryExistsResult(r))
    /\ UNCHANGED <<env, args, resp, last, remoteVars>>

\* create after the probe: the guard
create_guard(p) ==
    /\ pc[p] = "checked"
    /\ args[p].cmd = "create-repo"
    /\ IF RepositoryGuard(existing[p])
       THEN Finish(p, <<Log("fail", "exists"), Echo("fail", "exists")>>, "SystemExit(1)")
       ELSE /\ pc' = [pc EXCEPT ![p] = "mutate"]
            /\ UNCHANGED <<out, exit>>
    /\ UNCHANGED <<env, args, probe, held, existing, resp, calls, last, remoteVars>>

create_repository(p) ==
    /\ pc[p] = "mutate"
    /\ args[p].cmd = "create-repo"
    /\ \E r \in CreateResponses(args[p].slug \in repos) :
        /\ IssueMutation(p, Call("POST", RepositoryPath(Workspace, args[p].slug), "bearer",
                                 RepositoryBody(args[p].key)), r)
        /\ repos' = IF Applied(r) THEN repos \cup {args[p].slug} ELSE repos
        /\ LET creating == <<Echo("info", "creating")>> IN
           IF RequestException(r)
           THEN Finish(p, creating \o <<Log("fail", "create"), Echo("fail", "create")>>,
                       "SystemExit(1)")
           ELSE IF RepositoryCreated(r.status)
           THEN Finish(p, creating \o <<Log("ok", "create"), Echo("ok", "create")>>,
                       "return")
           ELSE IF r.body = "notjson"
           THEN Finish(p, creating \o <<Log("fail", "create")>>, "exception")
           ELSE Finish(p, creating \o <<Log("fail", "create"),
                            Log("fail", IF r.body = "msg" THEN "msg" ELSE "unknown"),
                            Echo("fail", "create")>>,
                       "SystemExit(1)")
    /\ UNCHANGED <<env, args, probe, held, existing, last, grants, projects>>

---------------------------------------------------------------------------
(* Invocations *)

NumCalls(p, methods) ==
    Cardinality({i \in DOMAIN calls[p] : calls[p][i].method \in methods})

NoWrite == [user |-> "none", slug |-> "none", level |-> "none", puts |-> 0]

\* what a finished invocation wrote: the grant an add-user set with an
\* accepted PUT, and how many PUTs it issued
Written(p) ==
    IF pc[p] = "done" /\ args[p].cmd = "add-user" /\ Applied(resp[p])
    THEN [user |-> args[p].user, slug |-> args[p].slug, level |-> args[p].level,
          puts |-> NumCalls(p, {"PUT"})]
    ELSE NoWrite

\* a new process: the shell runs bbctl with a command and its options
Start(p) ==
    /\ pc[p] \in {"idle", "done"}
    /\ \A q \in Procs \ {p} : pc[q] \in {"idle", "done"}
    /\ last' = IF pc[p] = "done" THEN Written(p) ELSE last
    /\ \E c \in Commands \cup GroupCommands :
            \E a \in ArgsOf(c) : args' = [args EXCEPT ![p] = a]
    /\ pc' = [pc EXCEPT ![p] = "cli"]
    /\ probe' = [probe EXCEPT ![p] = NoResponse]
    /\ held' = [held EXCEPT ![p] = "unset"]
    /\ resp' = [resp EXCEPT ![p] = NoResponse]
    /\ existing' = [existing EXCEPT ![p] = "unset"]
    /\ calls' = [calls EXCEPT ![p] = <<>>]
    /\ out' = [out EXCEPT ![p] = <<>>]
    /\ exit' = [exit EXCEPT ![p] = "running"]
    /\ UNCHANGED <<env, remoteVars>>

Init ==
    /\ env \in Environments
    /\ args = [p \in Procs |-> NoArgs]
    /\ pc = [p \in Procs |-> "idle"]
    /\ probe = [p \in Procs |-> NoResponse]
    /\ held = [p \in Procs |-> "unset"]
    /\ existing = [p \in Procs |-> "unset"]
    /\ resp = [p \in Procs |-> NoResponse]
    /\ calls = [p \in Procs |-> <<>>]
    /\ out = [p \in Procs |-> <<>>]
    /\ exit = [p \in Procs |-> "running"]
    /\ last = NoWrite
    /\ grants \in [Slugs \X Users -> Levels \cup {NoGrant}]
    /\ projects \in SUBSET Keys
    /\ repos \in SUBSET Slugs

Step(p) ==
    \/ Start(p)
    \/ cli(p)
    \/ users_cli(p)
    \/ check_user_repo_permission(p)
    \/ add_user_to_repo(p)
    \/ remove_user_from_repo(p)
    \/ exempt_user_from_pull_request(p)
    \/ exempt(p)
    \/ create_project_command(p)
    \/ project_exists(p)
    \/ create_project_guard(p)
    \/ create_project(p)
    \/ create(p)
    \/ repository_exists(p)
    \/ create_guard(p)
    \/ create_repository(p)

\* one shell: an invocation starts when the one before it has ended
Next == Step(1)

Spec == Init /\ [][Next]_vars

---------------------------------------------------------------------------
(* What an invocation amounts to *)

Done(p) == pc[p] = "done"

IsOutcomeMark(m) == m[2] \in {"ok", "noop", "fail"}

\* the outcome an invocation reports: the marker of its first outcome message
Outcome(p) ==
    LET marks == SelectSeq(out[p], IsOutcomeMark) IN
    IF marks = <<>> THEN "none"
    ELSE CASE marks[1][2] = "ok" -> "Success"
           [] marks[1][2] = "noop" -> "NoOp"
           [] marks[1][2] = "fail" -> "Failure"

\* some message of the invocation carries the service's error.message
Surfaced(p) == \E i \in DOMAIN out[p] : out[p][i][3] = "msg"

\* some message of the invocation carries marker kind and text
Says(p, kind, text) == \E i \in DOMAIN out[p] : out[p][i][2] = kind /\ out[p][i][3] = text

Mutated(p) == NumCalls(p, {"POST", "PUT", "DELETE"}) > 0

\* the configuration a command needs
Needed(c) ==
    IF c \in CreateCommands
    THEN {"BITBUCKET_API_URL", "BITBUCKET_WORKSPACE", "BITBUCKET_TOKEN"}
    ELSE {"BITBUCKET_API_URL", "BITBUCKET_WORKSPACE", "BITBUCKET_USERNAME",
          "BITBUCKET_APP_PASSWORD"}

\* the PUT add-user owes the service
PermissionPut(p) ==
    Call("PUT", PermissionPath(Workspace, args[p].slug, args[p].user), CtxAuth(p),
         PermissionBody(args[p].level))

---------------------------------------------------------------------------
(* Claims *)

\* C1: add-user run twice in sequence with the same user and level, the
\* second run's permission GET reflecting the first run's write: the first
\* run issued exactly one PUT, the second issues none and ends as NoOp.
C1_AddUserTwice ==
    \A p \in Procs :
        (Done(p) /\ args[p].cmd = "add-user") =>
            /\ Written(p) # NoWrite => Written(p).puts = 1
            /\ ( /\ last # NoWrite
                 /\ last.user = args[p].user
                 /\ last.slug = args[p].slug
                 /\ last.level = args[p].level
                 /\ probe[p] = Response(200, last.level) )
               => /\ last.puts = 1
                  /\ NumCalls(p, {"PUT"}) = 0
                  /\ Outcome(p) = "NoOp"
                  /\ ExitCode(exit[p]) = 0

C1_Witness ==
    \E p \in Procs :
        /\ Done(p) /\ args[p].cmd = "add-user"
        /\ last = [user |-> args[p].user, slug |-> args[p].slug,
                   level |-> args[p].level, puts |-> 1]
        /\ probe[p] = Response(200, last.level)
        /\ NumCalls(p, {"PUT"}) = 0
        /\ Outcome(p) = "NoOp"

\* C2: remove-user for a user the service holds no grant for issues no
\* DELETE, says there is nothing to remove, and ends as NoOp with exit 0.
C2_RemoveNoGrant ==
    \A p \in Procs :
        (Done(p) /\ args[p].cmd = "remove-user" /\ held[p] = NoGrant) =>
            /\ NumCalls(p, {"DELETE"}) = 0
            /\ Says(p, "noop", "nothing")
            /\ Outcome(p) = "NoOp"
            /\ ExitCode(exit[p]) = 0

C2_Witness ==
    \E p \in Procs :
        /\ Done(p) /\ args[p].cmd = "remove-user" /\ held[p] = NoGrant
        /\ probe[p].status = 404
        /\ calls[p] = <<Call("GET", PermissionPath(Workspace, args[p].slug, args[p].user),
                             CtxAuth(p), NoBody)>>
        /\ Outcome(p) = "NoOp"

\* C3: create-project and create-repo: once the existence check has
\* returned Exists the invocation never issues the POST, and it ends as
\* Failure with a non-zero exit status.
C3_ExistsNeverPosts ==
    \A p \in Procs :
        (args[p].cmd \in CreateCommands /\ probe[p] # NoResponse /\ existing[p] = TRUE) =>
            /\ NumCalls(p, {"POST"}) = 0
            /\ pc[p] \in {"checked", "done"}
            /\ Done(p) => /\ Outcome(p) = "Failure"
                          /\ Says(p, "fail", "exists")
                          /\ ExitCode(exit[p]) # 0

C3_Witness ==
    \E p \in Procs :
        /\ args[p].cmd = "create-repo" /\ probe[p].status = 200 /\ existing[p] = TRUE
        /\ Done(p) /\ Outcome(p) = "Failure" /\ ExitCode(exit[p]) = 1
        /\ NumCalls(p, {"POST"}) = 0

\* C4: the creation POST of create_project and create_repository, whatever
\* status answers it: the outcome is Success exactly when the status is 200
\* or 201, and every other status ends as Failure with exit status 1.
C4_CreatedOnly200Or201 ==
    \A p \in Procs :
        ( /\ Done(p) /\ args[p].cmd \in CreateCommands
          /\ NumCalls(p, {"POST"}) > 0 /\ ~resp[p].transport ) =>
            /\ Outcome(p) = "Success" <=> resp[p].status \in {200, 201}
            /\ resp[p].status \notin {200, 201} =>
                   Outcome(p) = "Failure" /\ ExitCode(exit[p]) = 1

C4_Witness ==
    \E p \in Procs :
        /\ Done(p) /\ args[p].cmd = "create-project"
        /\ resp[p] = Response(204, "nomsg")
        /\ Outcome(p) = "Failure" /\ ExitCode(exit[p]) = 1

\* C5: a creation call that fails on a response whose body holds
\* error.message surfaces that message before the process exits, on every
\* failure path, the one through raise_for_status included.
C5_RemoteMessageSurfaced ==
    \A p \in Procs :
        ( /\ Done(p) /\ args[p].cmd \in CreateCommands
          /\ NumCalls(p, {"POST"}) > 0 /\ ~resp[p].transport
          /\ Outcome(p) = "Failure" /\ resp[p].body = "msg" ) =>
            Surfaced(p)

\* C6: a transport failure of any mutating call (creation POST, permission
\* PUT, permission DELETE, branch restriction POST) ends as Failure with a
\* failure message and exit code 1, never in an unhandled exception.
C6_TransportFailureIsFailure ==
    \A p \in Procs :
        (Mutated(p) /\ resp[p].transport) =>
            /\ pc[p] \in {"done", "raised"}
            /\ Outcome(p) = "Failure"
            /\ \E i \in DOMAIN out[p] : out[p][i][2] = "fail"
            /\ exit[p] # "exception"
            /\ Done(p) => ExitCode(exit[p]) = 1

C6_Witness ==
    \E p \in Procs :
        /\ args[p].cmd = "remove-user" /\ NumCalls(p, {"DELETE"}) = 1
        /\ resp[p].transport /\ Done(p)
        /\ Outcome(p) = "Failure" /\ exit[p] = "SystemExit(1)"

\* C7: every command: the exit code is 0 exactly when the outcome is
\* Success or NoOp and 1 for every Failure: a missing configuration, a
\* guard rejection, the exempt failure that raises SystemExit(message).
C7_ExitCodes ==
    \A p \in Procs :
        (Done(p) /\ args[p].cmd \in Commands) =>
            /\ Outcome(p) \in {"Success", "NoOp", "Failure"}
            /\ ExitCode(exit[p]) = 0 <=> Outcome(p) \in {"Success", "NoOp"}
            /\ Outcome(p) = "Failure" => ExitCode(exit[p]) = 1

C7_Witness ==
    \E p \in Procs :
        /\ Done(p) /\ args[p].cmd = "exempt" /\ resp[p].status = 400
        /\ exit[p] = "SystemExit(message)"
        /\ Outcome(p) = "Failure" /\ ExitCode(exit[p]) = 1

\* C8: every command reached through the top-level CLI: when a
\* configuration value the command needs is missing, the process ends with
\* a non-zero exit and issues no network call.
C8_MissingConfigNoNetwork ==
    \A p \in Procs :
        (pc[p] # "idle" /\ ~(Needed(args[p].cmd) \subseteq env)) =>
            /\ calls[p] = <<>>
            /\ Done(p) => ExitCode(exit[p]) # 0

\* C9: add-user when the permission check returns a level other than the
\* desired one issues exactly one PUT to the user's permission resource
\* with body {permission: desired level}, and ends as Success when the
\* service accepts the PUT.
C9_UpdateDifferentLevel ==
    \A p \in Procs :
        ( /\ Done(p) /\ args[p].cmd = "add-user"
          /\ existing[p] \in Levels \ {args[p].level} ) =>
            /\ NumCalls(p, {"PUT"}) = 1
            /\ Len(calls[p]) = 2 /\ calls[p][2] = PermissionPut(p)
            /\ Says(p, "info", "updating")
            /\ Applied(resp[p]) => Outcome(p) = "Success" /\ ExitCode(exit[p]) = 0

C9_Witness ==
    \E p \in Procs :
        /\ Done(p) /\ args[p].cmd = "add-user" /\ args[p].level = "admin"
        /\ existing[p] = "read"
        /\ calls[p][2] = PermissionPut(p) /\ resp[p].status = 200
        /\ grants[args[p].slug, args[p].user] = "admin"
        /\ Outcome(p) = "Success"

\* C10: add-user when the permission check yields no current grant (404,
\* or 403, another status, a transport failure) issues exactly one PUT to
\* /repositories/{ws}/{slug}/permissions-config/users/{user} with body
\* {permission: level}; answered 200, the output carries the success
\* marker and the exit code is 0.
C10_AddNoGrant ==
    \A p \in Procs :
        ( /\ Done(p) /\ args[p].cmd = "add-user"
          /\ (probe[p].transport \/ probe[p].status \in {404, 403, 500}) ) =>
            /\ NumCalls(p, {"PUT"}) = 1
            /\ Len(calls[p]) = 2
            /\ calls[p][2].method = "PUT"
            /\ calls[p][2].path = <<"repositories", Workspace, args[p].slug,
                                    "permissions-config", "users", args[p].user>>
            /\ calls[p][2].body = [permission |-> args[p].level]
            /\ resp[p].status = 200 =>
                   /\ \E i \in DOMAIN out[p] : out[p][i][1] = "echo" /\ out[p][i][2] = "ok"
                   /\ ExitCode(exit[p]) = 0

C10_Witness ==
    \E p \in Procs :
        /\ Done(p)
        /\ args[p] = [cmd |-> "add-user", user |-> "alice", level |-> "write",
                      slug |-> "svc", key |-> "none"]
        /\ probe[p].status = 404
        /\ calls[p][2].path = <<"repositories", "acme", "svc", "permissions-config",
                                "users", "alice">>
        /\ calls[p][2].body = [permission |-> "write"]
        /\ resp[p].status = 200
        /\ Outcome(p) = "Success" /\ ExitCode(exit[p]) = 0

\* the DELETE remove-user owes the service
PermissionDelete(p) ==
    Call("DELETE", PermissionPath(Workspace, args[p].slug, args[p].user), CtxAuth(p),
         NoBody)

\* C11: remove-user when the permission check reports a grant issues
\* exactly one DELETE to the user's permission resource; it ends as Success
\* when the service accepts the DELETE and as Failure with exit 1 when the
\* DELETE returns an error status.
C11_RemoveExistingGrant ==
    \A p \in Procs :
        (Done(p) /\ args[p].cmd = "remove-user" /\ existing[p] \in Levels) =>
            /\ NumCalls(p, {"DELETE"}) = 1
            /\ Len(calls[p]) = 2 /\ calls[p][2] = PermissionDelete(p)
            /\ Applied(resp[p]) => Outcome(p) = "Success" /\ ExitCode(exit[p]) = 0
            /\ (~resp[p].transport /\ resp[p].status >= 400) =>
                   Outcome(p) = "Failure" /\ ExitCode(exit[p]) = 1

C11_Witness ==
    \E p \in Procs :
        /\ Done(p) /\ args[p].cmd = "remove-user" /\ existing[p] = "write"
        /\ calls[p][2] = PermissionDelete(p)
        /\ resp[p].status = 400
        /\ grants[args[p].slug, args[p].user] = "write"
        /\ Outcome(p) = "Failure" /\ ExitCode(exit[p]) = 1

\* C12: the mutating call of add-user (PUT), remove-user (DELETE) and
\* branches exempt (POST), whatever status answers it: the outcome is
\* Success exactly when the status is 2xx, and every other status ends as
\* Failure with a non-zero exit.
C12_SuccessOnly2xx ==
    \A p \in Procs :
        ( /\ Done(p) /\ args[p].cmd \in {"add-user", "remove-user", "exempt"}
          /\ Mutated(p) /\ ~resp[p].transport ) =>
            /\ Outcome(p) = "Success" <=> (resp[p].status >= 200 /\ resp[p].status < 300)
            /\ ~(resp[p].status >= 200 /\ resp[p].status < 300) =>
                   Outcome(p) = "Failure" /\ ExitCode(exit[p]) # 0

\* the probe could not tell: 403, an unexpected status, a transport failure
ProbeFailed(p) == probe[p].transport \/ probe[p].status \in {403, 500}

\* C13: when the existence or permission probe fails (403, unexpected
\* status, transport error) the operation does not crash and still issues
\* its mutating call, whose response decides the outcome: add-user,
\* remove-user, create-project and create-repo.
C13_ProbeFailureStillMutates ==
    \A p \in Procs :
        ( /\ Done(p)
          /\ args[p].cmd \in {"add-user", "remove-user", "create-project", "create-repo"}
          /\ ProbeFailed(p) ) =>
            /\ NumCalls(p, {"POST", "PUT", "DELETE"}) = 1
            /\ resp[p] # NoResponse
            /\ Outcome(p) = "Success" => ~RequestException(resp[p])
            /\ Outcome(p) # "NoOp"

\* the POST a create command owes the service
CreationPost(p) ==
    IF args[p].cmd = "create-project"
    THEN Call("POST", ProjectsPath(Workspace), "bearer", ProjectBody(args[p].key))
    ELSE Call("POST", RepositoryPath(Workspace, args[p].slug), "bearer",
              RepositoryBody(args[p].key))

\* C14: create-project and create-repo: when the existence check is
\* NotExists (404) or Indeterminate (403, another status that is not 200,
\* a transport failure) the invocation goes on to issue exactly one
\* creation POST carrying the resource's JSON body.
C14_NotExistsPosts ==
    \A p \in Procs :
        ( /\ args[p].cmd \in CreateCommands
          /\ probe[p] # NoResponse
          /\ (probe[p].status = 404 \/ ProbeFailed(p)) ) =>
            /\ pc[p] \in {"checked", "mutate", "done"}
            /\ pc[p] # "done" => NumCalls(p, {"POST"}) = 0 /\ exit[p] = "running"
            /\ Done(p) => /\ NumCalls(p, {"POST"}) = 1
                          /\ calls[p] = <<calls[p][1], CreationPost(p)>>
                          /\ calls[p][2].body =
                                IF args[p].cmd = "create-project"
                                THEN [key |-> args[p].key, name |-> "name",
                                      description |-> "description"]
                                ELSE [scm |-> "git", is_private |-> TRUE,
                                      project |-> [key |-> args[p].key]]

C14_Witness ==
    \E p \in Procs :
        /\ Done(p) /\ args[p].cmd = "create-project"
        /\ probe[p].status = 403
        /\ Len(calls[p]) = 2 /\ calls[p][2] = CreationPost(p)
        /\ resp[p].status = 201 /\ Outcome(p) = "Success"

\* C15: branches exempt performs no pre-check: every invocation that gets
\* past the configuration check, accepted or rejected by the service, issues
\* exactly one HTTP request, a POST to
\* /repositories/{ws}/{slug}/branch-restrictions with body {kind: push,
\* branch_match_kind: glob, pattern: master, users: [{type: user, username}]},
\* and no GET.
C15_ExemptOnePost ==
    \A p \in Procs :
        (Done(p) /\ args[p].cmd = "exempt" /\ exit[p] # "ctx.exit(1)") =>
            /\ Len(calls[p]) = 1
            /\ NumCalls(p, {"GET"}) = 0
            /\ calls[p][1].method = "POST"
            /\ calls[p][1].path =
                   <<"repositories", Workspace, args[p].slug, "branch-restrictions">>
            /\ calls[p][1].body =
                   [kind |-> "push", branch_match_kind |-> "glob", pattern |-> "master",
                    users |-> <<[type |-> "user", username |-> args[p].user]>>]
            /\ probe[p] = NoResponse
            /\ resp[p] # NoResponse

C15_Witness ==
    \E p \in Procs :
        /\ Done(p) /\ args[p].cmd = "exempt"
        /\ Len(calls[p]) = 1 /\ calls[p][1].method = "POST"
        /\ resp[p].status = 400
        /\ Outcome(p) = "Failure"

\* C16: the command surface provides group-membership mutations: users
\* add-to-group issues a single PUT and users remove-from-group a single
\* DELETE to /workspaces/{ws}/groups/{group}/members/{user}, each with no
\* pre-check and each ending in Success on 2xx and Failure otherwise.
C16_GroupMembership ==
    \A p \in Procs :
        (Done(p) /\ args[p].cmd \in GroupCommands /\ exit[p] # "ctx.exit(1)") =>
            /\ Len(calls[p]) = 1
            /\ calls[p][1].method =
                   (IF args[p].cmd = "add-to-group" THEN "PUT" ELSE "DELETE")
            /\ \E g \in Slugs :
                   calls[p][1].path =
                       <<"workspaces", Workspace, "groups", g, "members", args[p].user>>
            /\ Outcome(p) = "Success" <=> Applied(resp[p])
            /\ ~Applied(resp[p]) => Outcome(p) = "Failure"

\* a step in which a check's GET is answered
ProbeStep(p) == probe[p] = NoResponse /\ probe'[p] # NoResponse

\* C17: the existence and permission checks (project_exists,
\* repository_exists, check_user_repo_permission) never mutate remote state:
\* the step of a check issues a single GET and nothing else, and the remote
\* projects, repositories and grants are the same after it as before.
C17_ChecksDoNotMutate ==
    [][\A p \in Procs :
           ProbeStep(p) =>
               /\ calls[p] = <<>>
               /\ Len(calls'[p]) = 1
               /\ calls'[p][1].method = "GET"
               /\ calls'[p][1].body = NoBody
               /\ grants' = grants /\ projects' = projects /\ repos' = repos]_vars

C17_Witness ==
    \E p \in Procs :
        /\ pc[p] = "checked" /\ args[p].cmd = "remove-user"
        /\ Len(calls[p]) = 1 /\ calls[p][1].method = "GET"
        /\ probe[p].status = 200
        /\ held[p] = "write" /\ grants[args[p].slug, args[p].user] = "write"

C19_ChecksReturn ==
    [][\A p \in Procs :
           ProbeStep(p) =>
               /\ pc'[p] = "checked"
               /\ exit'[p] = "running"
               /\ out'[p] = out[p]
               /\ IF args[p].cmd \in UserCommands
                  THEN existing'[p] \in Levels \cup {NoGrant}
                  ELSE existing'[p] \in BOOLEAN]_vars

C19_Witness ==
    \E p \in Procs :
        /\ pc[p] = "checked" /\ args[p].cmd = "add-user"
        /\ probe[p].transport
        /\ exit[p] = "running" /\ existing[p] = NoGrant /\ out[p] = <<>>

\* C20: in every invocation of every command at most one mutating HTTP call
\* (POST, PUT, DELETE) is issued, whatever the responses: a failed or
\* rejected mutating call is never retried.
C20_AtMostOneMutation ==
    \A p \in Procs :
        /\ NumCalls(p, {"POST", "PUT", "DELETE"}) <= 1
        /\ Done(p) => Len(calls[p]) <= 2

C20_Witness ==
    \E p \in Procs :
        /\ Done(p) /\ args[p].cmd = "create-repo"
        /\ resp[p].status = 500
        /\ NumCalls(p, {"POST", "PUT", "DELETE"}) = 1
        /\ Outcome(p) = "Failure"

\* C21: in every invocation the total number of network calls is at most
\* two, and they are ordered: when a probe GET is issued it happens before
\* the mutating call, and no GET is issued after the mutating call.
C21_AtMostTwoOrdered ==
    \A p \in Procs :
        /\ Len(calls[p]) <= 2
        /\ \A i, j \in DOMAIN calls[p] :
               (i < j /\ calls[p][i].method \in {"POST", "PUT", "DELETE"}) =>
                   calls[p][j].method # "GET"
        /\ \A i \in DOMAIN calls[p] : calls[p][i].method = "GET" => i = 1

C21_Witness ==
    \E p \in Procs :
        /\ Done(p) /\ args[p].cmd = "add-user"
        /\ Len(calls[p]) = 2
        /\ calls[p][1].method = "GET" /\ calls[p][2].method = "PUT"

\* the outcome messages an invocation has emitted so far
OutcomeMessages(p) == SelectSeq(out[p], IsOutcomeMark)

\* C22: every invocation of a mutating operation follows Init, optional
\* PreCheck, Mutating, terminal and produces exactly one outcome in
\* {Success, NoOp, Failure}: once a terminal outcome has been reported no
\* further network call is issued and no second outcome message is emitted
\* for that invocation.
C22_OneOutcome ==
    [][\A p \in Procs :
           /\ (pc'[p] = "done" /\ args'[p].cmd \in Commands) =>
                  /\ Outcome(p)' \in {"Success", "NoOp", "Failure"}
                  /\ \A i \in DOMAIN OutcomeMessages(p)' :
                         OutcomeMessages(p)'[i][2] = OutcomeMessages(p)'[1][2]
           /\ (Outcome(p) # "none" /\ pc[p] \notin {"idle", "done"}) =>
                  /\ calls'[p] = calls[p]
                  /\ OutcomeMessages(p)' = OutcomeMessages(p)]_vars

\* C23: whenever remove-user terminates with exit 0 (Success or NoOp)
\* against a remote with no other writer, the remote holds no grant for
\* that user on that repository at termination; in particular a NoOp is
\* reported only when the user really has no grant.
C23_RemovedAtExitZero ==
    \A p \in Procs :
        (Done(p) /\ args[p].cmd = "remove-user" /\ ExitCode(exit[p]) = 0) =>
            /\ Outcome(p) \in {"Success", "NoOp"}
            /\ grants[args[p].slug, args[p].user] = NoGrant
            /\ Outcome(p) = "NoOp" => held[p] = NoGrant

---------------------------------------------------------------------------
(* Two shells: create-project for one key from two processes at once *)

\* a process running bbctl projects create-project, whatever the other does
RaceStart(p) ==
    /\ pc[p] = "idle"
    /\ \E a \in ArgsOf("create-project") : args' = [args EXCEPT ![p] = a]
    /\ pc' = [pc EXCEPT ![p] = "cli"]
    /\ UNCHANGED <<env, probe, held, existing, resp, calls, out, exit, last, remoteVars>>

InitRace ==
    /\ Init
    /\ grants = [x \in Slugs \X Users |-> NoGrant]
    /\ repos = {}

NextRace ==
    \E p \in Procs :
        \/ RaceStart(p)
        \/ cli(p)
        \/ create_project_command(p)
        \/ project_exists(p)
        \/ create_project_guard(p)
        \/ create_project(p)

SpecRace == InitRace /\ [][NextRace]_vars

\* C24: when two create-project invocations for the same key interleave
\* against a remote that rejects duplicate keys, both may pass the existence
\* guard, but at most one ends in Success; the other ends in Failure with
\* exit 1 (by guard rejection without a POST or by the rejected POST), and
\* neither issues more than one POST.
C24_RaceOneSuccess ==
    \A p, q \in Procs :
        /\ NumCalls(p, {"POST"}) <= 1
        /\ (p # q /\ Done(p) /\ Done(q) /\ args[p].key = args[q].key) =>
               /\ ~(Outcome(p) = "Success" /\ Outcome(q) = "Success")
               /\ Outcome(p) \in {"Success", "Failure"}
               /\ Outcome(p) = "Failure" =>
                      /\ ExitCode(exit[p]) = 1
                      /\ \/ NumCalls(p, {"POST"}) = 0
                         \/ RequestException(resp[p])
                         \/ ~ProjectCreated(resp[p].status)
               /\ Outcome(p) = "Success" =>
                      /\ ExitCode(exit[p]) = 0
                      /\ args[p].key \in projects

C24_Witness ==
    \E p, q \in Procs :
        /\ p # q /\ Done(p) /\ Done(q) /\ args[p].key = args[q].key
        /\ probe[p].status = 404 /\ probe[q].status = 404
        /\ existing[p] = FALSE /\ existing[q] = FALSE
        /\ NumCalls(p, {"POST"}) = 1 /\ NumCalls(q, {"POST"}) = 1
        /\ Outcome(p) = "Success"
        /\ Outcome(q) = "Failure" /\ resp[q].status = 400 /\ ExitCode(exit[q]) = 1

====
